---- MODULE Spec2Model ----
(***************************************************************************)
(* A model of osipi/_tissue.py: the Tofts and Extended Tofts forward       *)
(* models.  Floating-point numbers are fixed-point binary fractions.  The  *)
(* numpy / scipy primitives the module calls (np.diff, np.allclose,        *)
(* np.linspace, np.convolve, interp1d) are written out as operators that   *)
(* compute what the library computes; np.exp is replaced by a rational     *)
(* approximation of the exponential.                                       *)
(***************************************************************************)
EXTENDS Integers, Sequences, FiniteSets, TLC

\* ------------------------------------------------------------------------
\* Bounds of the model
\* ------------------------------------------------------------------------
MaxN == 3
MaxT == 5
FracBits == 8

\* ------------------------------------------------------------------------
\* Floating-point numbers
\* ------------------------------------------------------------------------
\* The model's floats are binary fixed-point numbers with FracBits
\* fractional digits: the integer v stands for v / 2^FracBits.  Sums and
\* differences are exact, products and quotients are rounded to the nearest
\* representable number.
Abs(n) == IF n < 0 THEN -n ELSE n

RECURSIVE Pow2(_)
Pow2(n) == IF n = 0 THEN 1 ELSE 2 * Pow2(n - 1)

Unit == Pow2(FracBits)

\* The integer quotient n / d rounded to nearest (d # 0)
RoundDiv(n, d) ==
    IF d < 0 THEN (2 * (-n) + (-d)) \div (2 * (-d))
    ELSE (2 * n + d) \div (2 * d)

\* The number n / d, and the integer n
Q(n, d) == RoundDiv(n * Unit, d)
QInt(n) == n * Unit
Zero == 0
One == Unit

QAdd(a, b) == a + b
QNeg(a) == -a
QSub(a, b) == a - b
QMul(a, b) == RoundDiv(a * b, Unit)
\* a / b for b # 0
QDiv(a, b) == RoundDiv(a * Unit, b)
QAbs(a) == Abs(a)
QLt(a, b) == a < b
QLe(a, b) == a <= b
QPos(a) == a > 0
QIsZero(a) == a = 0

\* Python's int(x) on a float: truncation toward zero.
Trunc(a) == IF a >= 0 THEN a \div Unit ELSE -((-a) \div Unit)

RECURSIVE QSumTo(_, _)
QSumTo(f, n) == IF n = 0 THEN Zero ELSE QAdd(QSumTo(f, n - 1), f[n])

\* A series is a sequence of rationals.  Fix turns a function written as
\* [i \in 1..n |-> e] into the explicit sequence of its values.
Fix(s) == s \o <<>>

\* Elementwise helpers on series (sequences of rationals)
Scale(c, s) == Fix([i \in 1..Len(s) |-> QMul(c, s[i])])
VAdd(a, b) == Fix([i \in 1..Len(a) |-> QAdd(a[i], b[i])])
\* Mutant of Take: the slice [0 : n] is dropped.
TakeAll(s, n) == s

Take(s, n) == Fix([i \in 1..(IF n < Len(s) THEN n ELSE Len(s)) |-> s[i]])

\* ------------------------------------------------------------------------
\* numpy primitives
\* ------------------------------------------------------------------------
\* np.allclose defaults: rtol = 1e-5, atol = 1e-8
RtolDen == 100000
AtolDen == 100000000

\* np.diff(t)
Diff(t) == Fix([i \in 1..(Len(t) - 1) |-> QSub(t[i + 1], t[i])])

\* np.min over a non-empty series
RECURSIVE MinTo(_, _)
MinTo(s, n) ==
    IF n = 1 THEN s[1]
    ELSE LET m == MinTo(s, n - 1) IN IF QLt(s[n], m) THEN s[n] ELSE m
Min(s) == MinTo(s, Len(s))

\* np.allclose(a, b) for a series a and a scalar b:
\* every |a[i] - b| <= atol + rtol * |b|.
\* With d = |a[i] - b| and m = |b| in units of 1/Unit this is
\*   d * AtolDen <= Unit + (AtolDen / RtolDen) * m,
\* evaluated by an integer quotient so that no product leaves the integers
\* of the model checker.
AllClose(a, b) ==
    \A i \in 1..Len(a) :
        LET d == QAbs(QSub(a[i], b))
            m == QAbs(b)
        IN  IF d = 0 THEN TRUE
            ELSE AtolDen <= (Unit + (AtolDen \div RtolDen) * m) \div d

\* np.allclose(np.diff(t), np.diff(t)[0])
IsUniform(t) == AllClose(Diff(t), Diff(t)[1])

\* np.linspace(start, stop, num): start + i * step, step = (stop - start) /
\* (num - 1), the last point set to stop
Linspace(start, stop, num) ==
    IF num <= 0 THEN <<>>
    ELSE IF num = 1 THEN <<start>>
    ELSE LET step == QDiv(QSub(stop, start), QInt(num - 1))
         IN  Fix([i \in 1..num |->
                     IF i = num THEN stop
                     ELSE QAdd(start, QMul(QInt(i - 1), step))])

\* np.convolve(a, v), mode 'full': out[k] = sum_j a[j] * v[k - j]
Convolve(a, v) ==
    Fix([k \in 1..(Len(a) + Len(v) - 1) |->
        LET lo == IF k - Len(v) + 1 > 1 THEN k - Len(v) + 1 ELSE 1
            hi == IF k < Len(a) THEN k ELSE Len(a)
            terms == Fix([j \in 1..(hi - lo + 1) |->
                             QMul(a[lo + j - 1], v[k - (lo + j - 1) + 1])])
        IN  QSumTo(terms, hi - lo + 1)])

\* np.exp(-x) for x >= 0.  The exponential is irrational; the model uses
\* 1 / (1 + x + x^2/2), rounded like every quotient: non-negative,
\* non-increasing, 1 at x = 0.
ExpNeg(x) ==
    QDiv(One, QAdd(One, QAdd(x, QMul(Q(1, 2), QMul(x, x)))))

\* ------------------------------------------------------------------------
\* scipy.interpolate.interp1d(x, y, kind, bounds_error=False, fill_value=0)
\* ------------------------------------------------------------------------
InBounds(x, u) == QLe(x[1], u) /\ QLe(u, x[Len(x)])

\* kind='linear': np.searchsorted(x, u) clipped to 1..len(x)-1 picks the
\* segment, the value is slope * (u - x_lo) + y_lo; out of bounds gives the
\* fill value 0.
LinearAt(x, y, u) ==
    IF ~InBounds(x, u) THEN Zero
    ELSE LET first == CHOOSE i \in 1..Len(x) :
                          /\ QLe(u, x[i])
                          /\ \A j \in 1..(i - 1) : QLt(x[j], u)
             hi == IF first < 2 THEN 2 ELSE first
             lo == hi - 1
             slope == QDiv(QSub(y[hi], y[lo]), QSub(x[hi], x[lo]))
         IN  QAdd(QMul(slope, QSub(u, x[lo])), y[lo])

InterpLinear(x, y, xnew) ==
    Fix([i \in 1..Len(xnew) |-> LinearAt(x, y, xnew[i])])

\* kind='quadratic': make_interp_spline(x, y, k=2).  The knot vector is
\* x[0] three times, the midpoints of x without the first and the last one,
\* x[-1] three times.
SplineKnots(x) ==
    LET n == Len(x)
    IN  Fix([j \in 1..(n + 3) |->
                IF j <= 3 THEN x[1]
                ELSE IF j >= n + 1 THEN x[n]
                ELSE QMul(Q(1, 2), QAdd(x[j - 2], x[j - 1]))])

\* Cox-de Boor recursion; a term with a zero-length support is dropped, and
\* the right end of the knot vector belongs to the last non-empty interval.
RECURSIVE BSpline(_, _, _, _)
BSpline(T, j, k, u) ==
    IF k = 0
    THEN IF /\ QLt(T[j], T[j + 1])
            /\ QLe(T[j], u)
            /\ \/ QLt(u, T[j + 1])
               \/ u = T[j + 1] /\ u = T[Len(T)]
         THEN One ELSE Zero
    ELSE LET left == IF T[j + k] = T[j] THEN Zero
                     ELSE QMul(QDiv(QSub(u, T[j]), QSub(T[j + k], T[j])),
                               BSpline(T, j, k - 1, u))
             right == IF T[j + k + 1] = T[j + 1] THEN Zero
                      ELSE QMul(QDiv(QSub(T[j + k + 1], u),
                                     QSub(T[j + k + 1], T[j + 1])),
                                BSpline(T, j + 1, k - 1, u))
         IN  QAdd(left, right)

\* Gauss-Jordan elimination with partial pivoting on the augmented
\* n x (n+1) matrix M, from column c on.
RECURSIVE GaussJordan(_, _, _)
GaussJordan(M, n, c) ==
    IF c > n THEN M
    ELSE LET p == CHOOSE r \in c..n :
                      /\ \A q \in c..n : QLe(QAbs(M[q][c]), QAbs(M[r][c]))
                      /\ \A q \in c..(r - 1) : QLt(QAbs(M[q][c]), QAbs(M[r][c]))
             S == [M EXCEPT ![c] = M[p], ![p] = M[c]]
             piv == Fix([col \in 1..(n + 1) |-> QDiv(S[c][col], S[c][c])])
             E == Fix([r \in 1..n |->
                      IF r = c THEN piv
                      ELSE Fix([col \in 1..(n + 1) |->
                               QSub(S[r][col], QMul(S[r][c], piv[col]))])])
         IN  GaussJordan(E, n, c + 1)

\* The spline coefficients: the solution of the collocation system
\* sum_j c[j] * B_j(x[i]) = y[i].
SplineCoeffs(x, y) ==
    LET n == Len(x)
        T == SplineKnots(x)
        M == Fix([i \in 1..n |->
                 Fix([j \in 1..(n + 1) |->
                     IF j = n + 1 THEN y[i] ELSE BSpline(T, j, 2, x[i])])])
        R == GaussJordan(M, n, 1)
    IN  Fix([j \in 1..n |-> R[j][n + 1]])

InterpQuadratic(x, y, xnew) ==
    LET n == Len(x)
        T == SplineKnots(x)
        c == SplineCoeffs(x, y)
    IN  Fix([i \in 1..Len(xnew) |->
            IF ~InBounds(x, xnew[i]) THEN Zero
            ELSE QSumTo(Fix([j \in 1..n |->
                                QMul(c[j], BSpline(T, j, 2, xnew[i]))]), n)])

\* interp1d refuses kind='quadratic' with fewer than order + 1 = 3 points
\* (ValueError); kind='linear' needs no such check here.
QuadraticMinPoints == 3
QuadraticOk(x) == Len(x) >= QuadraticMinPoints

\* ------------------------------------------------------------------------
\* osipi._convolution.exp_conv(T, t, a)
\* ------------------------------------------------------------------------
\* The convolution of a with the normalised kernel exp(-t/T)/T, integrated
\* interval by interval with a taken as piecewise linear:
\*   f[0] = 0,  f[i+1] = E * f[i] + a[i] * (1 - E) + da * (x - (1 - E)),
\*   x = (t[i+1] - t[i]) / T,  E = exp(-x),  da = (a[i+1] - a[i]) / x.
RECURSIVE ExpConvTo(_, _, _, _)
ExpConvTo(T, t, a, n) ==
    IF n = 1 THEN <<Zero>>
    ELSE LET f == ExpConvTo(T, t, a, n - 1)
             x == QDiv(QSub(t[n], t[n - 1]), T)
             E == ExpNeg(x)
             E0 == QSub(One, E)
             E1 == QSub(x, E0)
             da == QDiv(QSub(a[n], a[n - 1]), x)
         IN  Append(f, QAdd(QMul(E, f[n - 1]),
                            QAdd(QMul(a[n - 1], E0), QMul(da, E1))))

exp_conv(T, t, a) == IF QIsZero(T) THEN a ELSE ExpConvTo(T, t, a, Len(t))

\* ------------------------------------------------------------------------
\* Steps shared by tofts and extended_tofts (the source repeats them)
\* ------------------------------------------------------------------------
\* Mutants of Degenerate: "and" for "or"; the test of ve forgotten.
DegenerateAnd(Ktrans, ve) == ~QPos(Ktrans) /\ ~QPos(ve)
DegenerateKtransOnly(Ktrans, ve) == ~QPos(Ktrans)

\* Ktrans <= 0 or ve <= 0
Degenerate(Ktrans, ve) == ~(QPos(Ktrans) /\ QPos(ve))

\* Ktrans / 60, from 1/min to 1/sec
SecPerMin == 60
ConvertUnits(Ktrans) == QDiv(Ktrans, QInt(SecPerMin))

\* Mutant of DelayShift: the mask is t >= Ta.
DelayShiftInclusive(t, ca, Ta) ==
    LET f == InterpLinear(t, ca, Fix([i \in 1..Len(t) |-> QSub(t[i], Ta)]))
    IN  Fix([i \in 1..Len(t) |->
                QMul(IF QLe(Ta, t[i]) THEN One ELSE Zero, f[i])])

\* f = interp1d(t, ca, kind="linear", bounds_error=False, fill_value=0)
\* ca = (t > Ta) * f(t - Ta)
DelayShift(t, ca, Ta) ==
    LET f == InterpLinear(t, ca, Fix([i \in 1..Len(t) |-> QSub(t[i], Ta)]))
    IN  Fix([i \in 1..Len(t) |->
                QMul(IF QLt(Ta, t[i]) THEN One ELSE Zero, f[i])])

\* if Ta != 0: ca = shifted
ShiftIfDelayed(t, ca, Ta) == IF QIsZero(Ta) THEN ca ELSE DelayShift(t, ca, Ta)

\* imp = Ktrans * np.exp(-1 * kep * t)
ImpulseResponse(Ktrans, kep, t) ==
    Fix([i \in 1..Len(t) |-> QMul(Ktrans, ExpNeg(QMul(kep, t[i])))])

\* int((t[-1] - t[0]) / dt)
ResampleCount(t, dt) == Trunc(QDiv(QSub(t[Len(t)], t[1]), dt))

\* t_resampled = np.linspace(t[0], t[-1], int((t[-1] - t[0]) / dt))
ResampleGrid(t, dt) == Linspace(t[1], t[Len(t)], ResampleCount(t, dt))

\* Mutant of PlasmaTerm: the factor vp is forgotten.
PlasmaTermNoFactor(vp, series) == series

\* vp * ca, the plasma term of the extended model
PlasmaTerm(vp, series) == Scale(vp, series)

\* The factor the truncated convolution is multiplied by: t[1] (0-based),
\* the second sample of the grid.
GridScale(t) == t[2]

\* convolution[0 : len(t)] * t[1]
TruncatedConvolution(a, v, t) ==
    Scale(GridScale(t), Take(Convolve(a, v), Len(t)))

\* ------------------------------------------------------------------------
\* State: the arguments of one pair of calls, and each call's locals
\* ------------------------------------------------------------------------
VARIABLES
    t,          \* time series (seconds), strictly increasing
    ca,         \* arterial series as passed by the caller
    Ktrans,     \* as passed, in 1/min
    ve,
    vp,         \* extended_tofts only; <<>> until that call is made
    Ta,
    discretization_method,
    tofts,      \* the locals of the call tofts(t, ca, Ktrans, ve, Ta, method)
    extended_tofts  \* the locals of extended_tofts(t, ca, Ktrans, ve, vp, Ta, method)

args == <<t, ca, Ktrans, ve, vp, Ta, discretization_method>>
vars == <<t, ca, Ktrans, ve, vp, Ta, discretization_method, tofts, extended_tofts>>

\* Argument values the calls are tried on.
RECURSIVE Sorted(_)
Sorted(S) ==
    IF S = {} THEN <<>>
    ELSE LET m == CHOOSE x \in S : \A y \in S : x <= y
         IN  <<QInt(m)>> \o Sorted(S \ {m})

TimeGrids ==
    {Sorted(S) : S \in {X \in SUBSET (0..MaxT) :
                            Cardinality(X) >= 2 /\ Cardinality(X) <= MaxN}}
\* Arterial series of length n: a baseline a, raised by b at every second
\* sample.
CaSeries(n) ==
    {Fix([i \in 1..n |-> QInt(a + b * ((i - 1) % 2))]) :
        a \in {1, 2}, b \in {0, 1}}
KtransVals == {QInt(-30), Zero, QInt(30), QInt(60)}
VeVals == {QInt(-1), Zero, One}
VpVals == {Zero, Q(1, 2)}
TaVals == {Zero, QInt(1), QInt(2)}
Methods == {"conv", "exp"}

\* A call's locals before its first statement.  ca and Ktrans are rebound by
\* the body, so each call has its own copy; <<>> stands for "not assigned".
Fresh(c, K) ==
    [pc |-> "start", warned |-> FALSE, path |-> "none",
     Ktrans |-> K, ca |-> c, kep |-> <<>>, Tc |-> <<>>, imp |-> <<>>,
     dt |-> <<>>, t_resampled |-> <<>>, ca_resampled |-> <<>>,
     imp_resampled |-> <<>>, ct_resampled |-> <<>>, ct |-> <<>>,
     error |-> "none"]

Final == {"done", "error"}

Init ==
    /\ t \in TimeGrids
    /\ ca \in CaSeries(Len(t))
    /\ Ktrans \in KtransVals
    /\ ve \in VeVals
    /\ vp = <<>>
    /\ Ta \in TaVals
    /\ discretization_method \in Methods
    /\ tofts = Fresh(ca, Ktrans)
    /\ extended_tofts = Fresh(ca, Ktrans)

\* Raising an exception ends the call without a result.
Raise(c, e) == [c EXCEPT !.pc = "error", !.error = e]

\* ------------------------------------------------------------------------
\* tofts
\* ------------------------------------------------------------------------
\* Mutant of Tofts_Classify: the "not" of the test is missing.
Tofts_ClassifyInverted ==
    /\ tofts.pc = "start"
    /\ tofts' = [tofts EXCEPT !.pc = "guard", !.warned = IsUniform(t)]
    /\ UNCHANGED <<args, extended_tofts>>

\* if not np.allclose(np.diff(t), np.diff(t)[0]): warnings.warn(...)
Tofts_Classify ==
    /\ tofts.pc = "start"
    /\ tofts' = [tofts EXCEPT !.pc = "guard", !.warned = ~IsUniform(t)]
    /\ UNCHANGED <<args, extended_tofts>>

\* if Ktrans <= 0 or ve <= 0: ct = 0 * ca
Tofts_Degenerate ==
    /\ tofts.pc = "guard"
    /\ Degenerate(tofts.Ktrans, ve)
    /\ tofts' = [tofts EXCEPT !.pc = "done", !.path = "degenerate",
                              !.ct = Scale(Zero, tofts.ca)]
    /\ UNCHANGED <<args, extended_tofts>>

\* else: Ktrans = Ktrans / 60, then the branch on discretization_method
Tofts_Convert ==
    /\ tofts.pc = "guard"
    /\ ~Degenerate(tofts.Ktrans, ve)
    /\ tofts' = [tofts EXCEPT
                    !.pc = IF discretization_method = "exp"
                           THEN "exp_shift" ELSE "imp",
                    !.Ktrans = ConvertUnits(tofts.Ktrans)]
    /\ UNCHANGED <<args, extended_tofts>>

\* "exp" branch: shift the AIF by the arterial delay time (if not zero)
Tofts_ExpShift ==
    /\ tofts.pc = "exp_shift"
    /\ tofts' = [tofts EXCEPT !.pc = "exp_conv",
                              !.ca = ShiftIfDelayed(t, tofts.ca, Ta)]
    /\ UNCHANGED <<args, extended_tofts>>

\* Tc = ve / Ktrans; ct = ve * exp_conv(Tc, t, ca)
Tofts_ExpConv ==
    /\ tofts.pc = "exp_conv"
    /\ tofts' =
         IF QIsZero(tofts.Ktrans) THEN Raise(tofts, "ZeroDivisionError")
         ELSE LET Tc == QDiv(ve, tofts.Ktrans)
              IN  [tofts EXCEPT !.pc = "done", !.path = "exp", !.Tc = Tc,
                                !.ct = Scale(ve, exp_conv(Tc, t, tofts.ca))]
    /\ UNCHANGED <<args, extended_tofts>>

\* "conv" branch: kep = Ktrans / ve; imp = Ktrans * np.exp(-1 * kep * t)
Tofts_Impulse ==
    /\ tofts.pc = "imp"
    /\ tofts' =
         IF QIsZero(ve) THEN Raise(tofts, "ZeroDivisionError")
         ELSE LET kep == QDiv(tofts.Ktrans, ve)
              IN  [tofts EXCEPT !.pc = "shift", !.kep = kep,
                                !.imp = ImpulseResponse(tofts.Ktrans, kep, t)]
    /\ UNCHANGED <<args, extended_tofts>>

\* shift the AIF by the arterial delay time (if not zero)
Tofts_Shift ==
    /\ tofts.pc = "shift"
    /\ tofts' = [tofts EXCEPT !.pc = "grid",
                              !.ca = ShiftIfDelayed(t, tofts.ca, Ta)]
    /\ UNCHANGED <<args, extended_tofts>>

\* uniform grid: ct = np.convolve(ca, imp)[0 : len(t)] * t[1]
Tofts_Uniform ==
    /\ tofts.pc = "grid"
    /\ IsUniform(t)
    /\ tofts' = [tofts EXCEPT !.pc = "done", !.path = "uniform",
                    !.ct = TruncatedConvolution(tofts.ca, tofts.imp, t)]
    /\ UNCHANGED <<args, extended_tofts>>

\* non-uniform grid: dt = np.min(np.diff(t)); t_resampled = np.linspace(...);
\* ca_resampled, imp_resampled by quadratic interpolation
Tofts_Resample ==
    /\ tofts.pc = "grid"
    /\ ~IsUniform(t)
    /\ tofts' =
         LET dt == Min(Diff(t))
             tr == ResampleGrid(t, dt)
         IN  IF ~QuadraticOk(t) THEN Raise(tofts, "ValueError")
             ELSE [tofts EXCEPT !.pc = "convolve", !.path = "resample",
                      !.dt = dt, !.t_resampled = tr,
                      !.ca_resampled = InterpQuadratic(t, tofts.ca, tr),
                      !.imp_resampled = InterpQuadratic(t, tofts.imp, tr)]
    /\ UNCHANGED <<args, extended_tofts>>

\* ct_resampled = np.convolve(ca_resampled, imp_resampled)
\*                    [0 : len(t_resampled)] * t_resampled[1]
Tofts_Convolve ==
    /\ tofts.pc = "convolve"
    /\ tofts' =
         IF Len(tofts.t_resampled) = 0 THEN Raise(tofts, "ValueError")
         ELSE IF Len(tofts.t_resampled) < 2 THEN Raise(tofts, "IndexError")
         ELSE [tofts EXCEPT !.pc = "restore",
                  !.ct_resampled =
                      TruncatedConvolution(tofts.ca_resampled,
                                           tofts.imp_resampled,
                                           tofts.t_resampled)]
    /\ UNCHANGED <<args, extended_tofts>>

\* ct_func = interp1d(t_resampled, ct_resampled, kind="quadratic", ...)
\* ct = ct_func(t)
Tofts_Restore ==
    /\ tofts.pc = "restore"
    /\ tofts' =
         IF ~QuadraticOk(tofts.t_resampled) THEN Raise(tofts, "ValueError")
         ELSE [tofts EXCEPT !.pc = "done",
                  !.ct = InterpQuadratic(tofts.t_resampled,
                                         tofts.ct_resampled, t)]
    /\ UNCHANGED <<args, extended_tofts>>

\* ------------------------------------------------------------------------
\* extended_tofts (called after tofts has returned or raised, with the same
\* arguments and a plasma volume fraction vp)
\* ------------------------------------------------------------------------
\* if not np.allclose(np.diff(t), np.diff(t)[0]): warnings.warn(...)
Extended_Classify ==
    /\ tofts.pc \in Final
    /\ extended_tofts.pc = "start"
    /\ \E v \in VpVals : vp' = v
    /\ extended_tofts' = [extended_tofts EXCEPT !.pc = "guard",
                                                !.warned = ~IsUniform(t)]
    /\ UNCHANGED <<t, ca, Ktrans, ve, Ta, discretization_method, tofts>>

\* if Ktrans <= 0 or ve <= 0: ct = vp * ca
Extended_Degenerate ==
    /\ extended_tofts.pc = "guard"
    /\ Degenerate(extended_tofts.Ktrans, ve)
    /\ extended_tofts' = [extended_tofts EXCEPT
                             !.pc = "done", !.path = "degenerate",
                             !.ct = PlasmaTerm(vp, extended_tofts.ca)]
    /\ UNCHANGED <<args, tofts>>

\* else: Ktrans = Ktrans / 60, then the branch on discretization_method
Extended_Convert ==
    /\ extended_tofts.pc = "guard"
    /\ ~Degenerate(extended_tofts.Ktrans, ve)
    /\ extended_tofts' = [extended_tofts EXCEPT
                             !.pc = IF discretization_method = "exp"
                                    THEN "exp_shift" ELSE "imp",
                             !.Ktrans = ConvertUnits(extended_tofts.Ktrans)]
    /\ UNCHANGED <<args, tofts>>

\* "exp" branch: shift the AIF by the arterial delay time (if not zero)
Extended_ExpShift ==
    /\ extended_tofts.pc = "exp_shift"
    /\ extended_tofts' = [extended_tofts EXCEPT
                             !.pc = "exp_conv",
                             !.ca = ShiftIfDelayed(t, extended_tofts.ca, Ta)]
    /\ UNCHANGED <<args, tofts>>

\* Tc = ve / Ktrans; ct = (vp * ca) + ve * exp_conv(Tc, t, ca)
Extended_ExpConv ==
    /\ extended_tofts.pc = "exp_conv"
    /\ extended_tofts' =
         IF QIsZero(extended_tofts.Ktrans)
         THEN Raise(extended_tofts, "ZeroDivisionError")
         ELSE LET Tc == QDiv(ve, extended_tofts.Ktrans)
              IN  [extended_tofts EXCEPT
                      !.pc = "done", !.path = "exp", !.Tc = Tc,
                      !.ct = VAdd(PlasmaTerm(vp, extended_tofts.ca),
                                  Scale(ve, exp_conv(Tc, t, extended_tofts.ca)))]
    /\ UNCHANGED <<args, tofts>>

\* "conv" branch: kep = Ktrans / ve; imp = Ktrans * np.exp(-1 * kep * t)
Extended_Impulse ==
    /\ extended_tofts.pc = "imp"
    /\ extended_tofts' =
         IF QIsZero(ve) THEN Raise(extended_tofts, "ZeroDivisionError")
         ELSE LET kep == QDiv(extended_tofts.Ktrans, ve)
              IN  [extended_tofts EXCEPT
                      !.pc = "shift", !.kep = kep,
                      !.imp = ImpulseResponse(extended_tofts.Ktrans, kep, t)]
    /\ UNCHANGED <<args, tofts>>

\* shift the AIF by the arterial delay time (if not zero)
Extended_Shift ==
    /\ extended_tofts.pc = "shift"
    /\ extended_tofts' = [extended_tofts EXCEPT
                             !.pc = "grid",
                             !.ca = ShiftIfDelayed(t, extended_tofts.ca, Ta)]
    /\ UNCHANGED <<args, tofts>>

\* Mutant of Extended_Uniform: the plasma term uses the arterial series as
\* passed instead of the delay-shifted one.
Extended_UniformUnshifted ==
    /\ extended_tofts.pc = "grid"
    /\ IsUniform(t)
    /\ extended_tofts' = [extended_tofts EXCEPT
                             !.pc = "done", !.path = "uniform",
                             !.ct = VAdd(TruncatedConvolution(extended_tofts.ca,
                                                              extended_tofts.imp, t),
                                         PlasmaTerm(vp, ca))]
    /\ UNCHANGED <<args, tofts>>

\* uniform grid: ct = np.convolve(ca, imp)[0 : len(t)] * t[1] + (vp * ca)
Extended_Uniform ==
    /\ extended_tofts.pc = "grid"
    /\ IsUniform(t)
    /\ extended_tofts' = [extended_tofts EXCEPT
                             !.pc = "done", !.path = "uniform",
                             !.ct = VAdd(TruncatedConvolution(extended_tofts.ca,
                                                              extended_tofts.imp, t),
                                         PlasmaTerm(vp, extended_tofts.ca))]
    /\ UNCHANGED <<args, tofts>>

\* non-uniform grid: dt = np.min(np.diff(t)); t_resampled = np.linspace(...);
\* ca_resampled, imp_resampled by quadratic interpolation
Extended_Resample ==
    /\ extended_tofts.pc = "grid"
    /\ ~IsUniform(t)
    /\ extended_tofts' =
         LET dt == Min(Diff(t))
             tr == ResampleGrid(t, dt)
         IN  IF ~QuadraticOk(t) THEN Raise(extended_tofts, "ValueError")
             ELSE [extended_tofts EXCEPT
                      !.pc = "convolve", !.path = "resample",
                      !.dt = dt, !.t_resampled = tr,
                      !.ca_resampled = InterpQuadratic(t, extended_tofts.ca, tr),
                      !.imp_resampled = InterpQuadratic(t, extended_tofts.imp, tr)]
    /\ UNCHANGED <<args, tofts>>

\* ct_resampled = np.convolve(ca_resampled, imp_resampled)
\*                    [0 : len(t_resampled)] * t_resampled[1]
\*                + (vp * ca_resampled)
Extended_Convolve ==
    /\ extended_tofts.pc = "convolve"
    /\ extended_tofts' =
         IF Len(extended_tofts.t_resampled) = 0
         THEN Raise(extended_tofts, "ValueError")
         ELSE IF Len(extended_tofts.t_resampled) < 2
         THEN Raise(extended_tofts, "IndexError")
         ELSE [extended_tofts EXCEPT
                  !.pc = "restore",
                  !.ct_resampled =
                      VAdd(TruncatedConvolution(extended_tofts.ca_resampled,
                                                extended_tofts.imp_resampled,
                                                extended_tofts.t_resampled),
                           PlasmaTerm(vp, extended_tofts.ca_resampled))]
    /\ UNCHANGED <<args, tofts>>

\* ct_func = interp1d(t_resampled, ct_resampled, kind="quadratic", ...)
\* ct = ct_func(t)
Extended_Restore ==
    /\ extended_tofts.pc = "restore"
    /\ extended_tofts' =
         IF ~QuadraticOk(extended_tofts.t_resampled)
         THEN Raise(extended_tofts, "ValueError")
         ELSE [extended_tofts EXCEPT
                  !.pc = "done",
                  !.ct = InterpQuadratic(extended_tofts.t_resampled,
                                         extended_tofts.ct_resampled, t)]
    /\ UNCHANGED <<args, tofts>>

Next ==
    \/ Tofts_Classify
    \/ Tofts_Degenerate
    \/ Tofts_Convert
    \/ Tofts_ExpShift
    \/ Tofts_ExpConv
    \/ Tofts_Impulse
    \/ Tofts_Shift
    \/ Tofts_Uniform
    \/ Tofts_Resample
    \/ Tofts_Convolve
    \/ Tofts_Restore
    \/ Extended_Classify
    \/ Extended_Degenerate
    \/ Extended_Convert
    \/ Extended_ExpShift
    \/ Extended_ExpConv
    \/ Extended_Impulse
    \/ Extended_Shift
    \/ Extended_Uniform
    \/ Extended_Resample
    \/ Extended_Convolve
    \/ Extended_Restore

Spec == Init /\ [][Next]_vars

\* ------------------------------------------------------------------------
\* Properties
\* ------------------------------------------------------------------------
CallNames == {"tofts", "extended_tofts"}
Call(name) == IF name = "tofts" THEN tofts ELSE extended_tofts
Started(c) == c.pc \notin {"start", "guard"}

\* The guard's condition, on the arguments as passed
DegenerateArgs == Ktrans <= 0 \/ ve <= 0

\* The delay-shifted arterial series, from the arguments as passed
ShiftedArgs == ShiftIfDelayed(t, ca, Ta)

\* C1: with Ktrans <= 0 or ve <= 0 a call goes from the guard straight to its
\* result and raises nothing: tofts returns zero at every sample,
\* extended_tofts returns vp * ca for the arterial series as passed, whatever
\* Ta and the discretization method are.
C1_DegenerateResult ==
    DegenerateArgs =>
        /\ Started(tofts) =>
              /\ tofts.pc = "done"
              /\ Len(tofts.ct) = Len(ca)
              /\ \A i \in 1..Len(ca) : tofts.ct[i] = 0
        /\ Started(extended_tofts) =>
              /\ extended_tofts.pc = "done"
              /\ Len(extended_tofts.ct) = Len(ca)
              /\ \A i \in 1..Len(ca) :
                     extended_tofts.ct[i] = QMul(vp, ca[i])

C1_Witness ==
    /\ DegenerateArgs
    /\ tofts.pc = "done"
    /\ extended_tofts.pc = "done"
    /\ Ta # 0
    /\ discretization_method = "exp"
    /\ ~IsUniform(t)
    /\ \E i \in 1..Len(ca) : extended_tofts.ct[i] # 0

\* C2: a call that returns, returns a series of exactly len(t) samples, on
\* every path (degenerate, exponential, uniform, resampled).
C2_LengthInvariant ==
    \A name \in CallNames : LET c == Call(name) IN c.pc = "done" => Len(c.ct) = Len(t)

C2_Witness ==
    /\ tofts.pc = "done"
    /\ tofts.path = "resample"
    /\ extended_tofts.pc = "done"
    /\ Len(t) >= 3
    /\ Len(tofts.t_resampled) # Len(t)

\* C3: with non-degenerate parameters and vp = 0, extended_tofts ends as tofts
\* does on the same arguments: on the same path, and with the same series.
C3_ExtendedEqualsBase ==
    (/\ extended_tofts.pc \in Final
     /\ ~DegenerateArgs
     /\ vp = 0)
        => /\ extended_tofts.pc = tofts.pc
           /\ extended_tofts.path = tofts.path
           /\ extended_tofts.ct = tofts.ct

C3_Witness ==
    /\ extended_tofts.pc = "done"
    /\ ~DegenerateArgs
    /\ vp = 0
    /\ extended_tofts.path = "resample"
    /\ Ta # 0
    /\ \E i \in 1..Len(t) : extended_tofts.ct[i] # 0

\* C4: in a non-degenerate call, once the delay shift has run, the arterial
\* series the model uses has the length of the input; with Ta > 0 it is zero
\* at every index i with t[i] <= Ta, and with Ta = 0 it is the input.
Shifted(c) ==
    \/ c.pc \in {"exp_conv", "grid", "convolve", "restore"}
    \/ c.pc = "done" /\ c.path # "degenerate"

C4_DelayZeroing ==
    \A name \in CallNames : LET c == Call(name) IN
        Shifted(c) =>
            /\ Len(c.ca) = Len(ca)
            /\ Ta > 0 => \A i \in 1..Len(t) : t[i] <= Ta => c.ca[i] = 0
            /\ Ta = 0 => c.ca = ca

C4_Witness ==
    /\ tofts.pc = "grid"
    /\ Ta > 0
    /\ \E i \in 1..Len(t) : t[i] = Ta /\ ca[i] # 0 /\ tofts.ca[i] = 0
    /\ \E i \in 1..Len(t) : tofts.ca[i] # 0

\* C5: on a non-uniform grid, with non-degenerate parameters and method
\* 'conv', no call raises, and the resampled grid has at least 3 points.
C5_NonUniformNonFatal ==
    (~IsUniform(t) /\ ~DegenerateArgs /\ discretization_method = "conv")
        => \A name \in CallNames : LET c == Call(name) IN
               /\ c.pc # "error"
               /\ c.pc \in {"convolve", "restore"} => Len(c.t_resampled) >= 3

\* C6 as stated: the warning is surfaced exactly on a non-uniform grid, and a
\* call that surfaced it ends on the resampling path.
C6_WarningImpliesResampling ==
    \A name \in CallNames : LET c == Call(name) IN
        /\ c.pc # "start" => (c.warned <=> ~IsUniform(t))
        /\ (c.pc \in Final /\ c.warned) => c.path = "resample"

\* C6 amended: the warning is surfaced exactly on a non-uniform grid; a call
\* that surfaced it takes the resampling path exactly when its parameters are
\* non-degenerate and the method is not 'exp'.
C6_WarningMayResample ==
    \A name \in CallNames : LET c == Call(name) IN
        /\ c.pc # "start" => (c.warned <=> ~IsUniform(t))
        /\ c.pc = "start" => ~c.warned
        /\ (c.pc \in Final /\ c.warned) =>
               (c.path = "resample"
                    <=> (~DegenerateArgs /\ discretization_method # "exp"))

C6_Witness ==
    /\ tofts.pc = "done"
    /\ tofts.warned
    /\ tofts.path = "exp"
    /\ extended_tofts.pc = "done"
    /\ extended_tofts.warned

\* C7: on a uniform grid with step dt = t[1] - t[0], tofts with method 'conv'
\* returns result[i] = dt * sum_{j <= i} ca_shifted[j] * imp[i - j].
C7_UniformConvolution ==
    (tofts.pc = "done" /\ tofts.path = "uniform") =>
        LET dt == QSub(t[2], t[1])
        IN  /\ Len(tofts.ct) = Len(t)
            /\ \A i \in 1..Len(t) :
                   tofts.ct[i] =
                       QMul(dt, QSumTo([j \in 1..i |->
                                           QMul(tofts.ca[j],
                                                tofts.imp[i - j + 1])], i))

\* C8: the resampled grid runs from t[0] to t[-1], has
\* floor((t[-1] - t[0]) / dt_min) points and step dt_min, and the convolution
\* on it is scaled by dt_min.
C8_ResamplingGrid ==
    \A name \in CallNames : LET c == Call(name) IN
        c.pc \in {"convolve", "restore"} =>
            LET dtmin == Min(Diff(t))
                tr == c.t_resampled
            IN  /\ c.dt = dtmin
                /\ Len(tr) = Trunc(QDiv(QSub(t[Len(t)], t[1]), dtmin))
                /\ tr[1] = t[1]
                /\ tr[Len(tr)] = t[Len(t)]
                /\ \A i \in 1..(Len(tr) - 1) : QSub(tr[i + 1], tr[i]) = dtmin
                /\ GridScale(tr) = dtmin

\* C9: a call is about to evaluate kep = Ktrans / ve or Tc = ve / Ktrans only
\* with Ktrans > 0 and ve > 0 (as passed and as converted); no division by
\* zero is raised; every other combination goes from the guard straight to
\* the degenerate result.
C9_NoDivisionByZero ==
    \A name \in CallNames : LET c == Call(name) IN
        /\ c.pc \in {"imp", "exp_conv"} =>
               Ktrans > 0 /\ c.Ktrans > 0 /\ ve > 0
        /\ c.error # "ZeroDivisionError"
        /\ (Started(c) /\ DegenerateArgs) =>
               c.pc = "done" /\ c.path = "degenerate"

C9_Witness ==
    /\ tofts.pc = "done"
    /\ tofts.path = "resample"
    /\ extended_tofts.pc = "imp"
    /\ extended_tofts.Ktrans > 0
    /\ ve > 0

\* C10: in a non-degenerate extended_tofts call the plasma addend is vp times
\* the delay-shifted arterial series: on the exponential and the uniform
\* paths the result is the tofts result plus vp * ca_shifted; on the
\* resampled path vp times the resampled shifted series is added on the
\* resampled grid, and the sum is then interpolated back.
C10_PlasmaAlignment ==
    /\ (extended_tofts.pc = "done" /\ extended_tofts.path \in {"exp", "uniform"})
          => \A i \in 1..Len(t) :
                 extended_tofts.ct[i]
                     = QAdd(tofts.ct[i], QMul(vp, ShiftedArgs[i]))
    /\ extended_tofts.pc \in {"restore", "done"}
          /\ extended_tofts.path = "resample"
          => LET tr == extended_tofts.t_resampled
                 car == InterpQuadratic(t, ShiftedArgs, tr)
             IN  /\ extended_tofts.ca_resampled = car
                 /\ \A i \in 1..Len(tr) :
                        extended_tofts.ct_resampled[i]
                            = QAdd(tofts.ct_resampled[i], QMul(vp, car[i]))
    /\ (extended_tofts.pc = "done" /\ extended_tofts.path = "resample")
          => extended_tofts.ct
                 = InterpQuadratic(extended_tofts.t_resampled,
                                   extended_tofts.ct_resampled, t)

C10_Witness ==
    /\ extended_tofts.pc = "done"
    /\ extended_tofts.path = "resample"
    /\ vp # 0
    /\ Ta # 0
    /\ ShiftedArgs # ca
    /\ \E i \in 1..Len(t) : extended_tofts.ct[i] # tofts.ct[i]

====
